---- MODULE Spec2Model ----
(***************************************************************************)
(* A model of lisp/src/main.rs: the nom parser for one parenthesised       *)
(* prefix expression, the evaluator that folds its operands, and the       *)
(* rustyline read-eval-print loop of main.                                 *)
(*                                                                         *)
(* A line of text is a sequence of one-character strings.  isize is a      *)
(* two's-complement integer of IsizeBits bits; the width is a parameter    *)
(* of the model and is checked at a reduced value.  Standard output is     *)
(* write-only: the model keeps the lines of the current loop iteration and *)
(* the number of lines written before it.                                  *)
(***************************************************************************)
EXTENDS Integers, Sequences, FiniteSets, TLC

VARIABLES
    input,            \* the line handed to parse
    parsed,           \* the IResult of parse(&input)
    atoms,            \* the Vec<Atom> handed to eval
    output,           \* the Result<Atom> of eval(&atoms)
    overflow_checks,  \* build profile: TRUE = overflow panics, FALSE = wraps
    pc,               \* position in main's loop body (or in a direct call)
    status,           \* "running", "returned_ok", "returned_err", "panicked"
    stdout,           \* the lines println! has written in this iteration
    written,          \* number of lines written in the earlier iterations
    reads,            \* number of lines editor.readline has delivered
    evals,            \* number of calls of eval made by main
    form              \* how the line was typed: its atoms and its spacing

vars == <<input, parsed, atoms, output, overflow_checks, pc, status, stdout,
          written, reads, evals, form>>

(***************************************************************************)
(* Bounds of the model.                                                    *)
(***************************************************************************)
IsizeBits == 6
MaxNum == 5
MaxAtoms == 4
MaxLit == 1
MaxItems == 3
MaxGap == 2
MaxSuffix == 1
MaxLines == 2

(***************************************************************************)
(* isize                                                                   *)
(***************************************************************************)
IsizeMax == 2^(IsizeBits - 1) - 1

IsizeMin == -(2^(IsizeBits - 1))

InIsize(x) == IsizeMin <= x /\ x <= IsizeMax

\* two's-complement wrap-around of an out-of-range result (release build)
Wrap(x) == ((x - IsizeMin) % 2^IsizeBits) + IsizeMin

Abs(x) == IF x < 0 THEN -x ELSE x

\* Rust's integer division truncates toward zero
Quot(a, b) == IF (a < 0) = (b < 0) THEN Abs(a) \div Abs(b)
              ELSE -(Abs(a) \div Abs(b))

(***************************************************************************)
(* enum Atom                                                               *)
(***************************************************************************)
Plus == [tag |-> "Plus", number |-> 0]

Minus == [tag |-> "Minus", number |-> 0]

Divide == [tag |-> "Divide", number |-> 0]

Multiply == [tag |-> "Multiply", number |-> 0]

Number(n) == [tag |-> "Number", number |-> n]

Operators == {Plus, Minus, Divide, Multiply}

(***************************************************************************)
(* Evaluator                                                               *)
(***************************************************************************)
EvalOk(value, ops) ==
    [kind |-> "Ok", value |-> value, msg |-> "", ops |-> ops]

EvalErr(msg) ==
    [kind |-> "Err", value |-> Number(0), msg |-> msg, ops |-> 0]

EvalPanic(msg, ops) ==
    [kind |-> "Panic", value |-> Number(0), msg |-> msg, ops |-> ops]

NoOutput == [kind |-> "None", value |-> Number(0), msg |-> "", ops |-> 0]

\* a variant that drops the atoms that are not numbers instead of failing
atoms_to_numbers_skipping(as) ==
    [kind |-> "Ok",
     numbers |-> [i \in 1..Len(SelectSeq(as, LAMBDA a : a.tag = "Number"))
                    |-> SelectSeq(as, LAMBDA a : a.tag = "Number")[i].number]]

\* atoms_to_numbers: every atom must be a Number, else the collect fails
atoms_to_numbers(as) ==
    IF \A i \in DOMAIN as : as[i].tag = "Number"
    THEN [kind |-> "Ok", numbers |-> [i \in DOMAIN as |-> as[i].number]]
    ELSE [kind |-> "Err", numbers |-> <<>>]

\* a variant whose subtraction and division take their operands swapped
closure_swapped(op, acc, number) ==
    IF op = "Divide"
    THEN IF acc = 0
         THEN [kind |-> "Panic", value |-> 0, msg |-> "divide by zero"]
         ELSE [kind |-> "Ok", value |-> Quot(number, acc), msg |-> ""]
    ELSE LET raw == CASE op = "Plus" -> acc + number
                      [] op = "Minus" -> number - acc
                      [] op = "Multiply" -> acc * number
         IN  IF InIsize(raw)
             THEN [kind |-> "Ok", value |-> raw, msg |-> ""]
             ELSE IF overflow_checks
                  THEN [kind |-> "Panic", value |-> 0, msg |-> "overflow"]
                  ELSE [kind |-> "Ok", value |-> Wrap(raw), msg |-> ""]

\* one application of the closure handed to reduce: acc (op) number
closure(op, acc, number) ==
    IF op = "Divide"
    THEN IF number = 0
         THEN [kind |-> "Panic", value |-> 0, msg |-> "divide by zero"]
         ELSE IF InIsize(Quot(acc, number))
              THEN [kind |-> "Ok", value |-> Quot(acc, number), msg |-> ""]
              ELSE [kind |-> "Panic", value |-> 0, msg |-> "overflow"]
    ELSE LET raw == CASE op = "Plus" -> acc + number
                      [] op = "Minus" -> acc - number
                      [] op = "Multiply" -> acc * number
         IN  IF InIsize(raw)
             THEN [kind |-> "Ok", value |-> raw, msg |-> ""]
             ELSE IF overflow_checks
                  THEN [kind |-> "Panic", value |-> 0, msg |-> "overflow"]
                  ELSE [kind |-> "Ok", value |-> Wrap(raw), msg |-> ""]

\* Iterator::reduce over numbers[i..], acc holding the fold so far and ops
\* the number of closure applications already made
RECURSIVE reduce(_, _, _, _, _)
reduce(op, numbers, i, acc, ops) ==
    IF i > Len(numbers)
    THEN EvalOk(Number(acc), ops)
    ELSE LET r == closure(op, acc, numbers[i])
         IN  IF r.kind = "Panic"
             THEN EvalPanic(r.msg, ops + 1)
             ELSE reduce(op, numbers, i + 1, r.value, ops + 1)

eval(as) ==
    IF as = <<>> \/ Head(as).tag = "Number"
    THEN EvalErr("Invalid input")
    ELSE LET numbers == atoms_to_numbers(Tail(as))
         IN  IF numbers.kind = "Err"
             THEN EvalErr("Expected number")
             ELSE IF numbers.numbers = <<>>
                  THEN EvalErr("Tail is empty")
                  ELSE reduce(Head(as).tag, numbers.numbers, 2,
                              numbers.numbers[1], 0)

(***************************************************************************)
(* Display for Atom                                                        *)
(***************************************************************************)
Digits == <<"0", "1", "2", "3", "4", "5", "6", "7", "8", "9">>

\* the decimal digits of a non-negative integer, most significant first
RECURSIVE DecimalDigits(_)
DecimalDigits(n) ==
    IF n < 10 THEN <<Digits[n + 1]>>
    ELSE Append(DecimalDigits(n \div 10), Digits[(n % 10) + 1])

\* format_args!("{number}") of an isize
DecimalText(n) == IF n < 0 THEN <<"-">> \o DecimalDigits(-n)
                  ELSE DecimalDigits(n)

fmt(a) ==
    CASE a.tag = "Plus" -> <<"-">>
      [] a.tag = "Minus" -> <<"+">>
      [] a.tag = "Divide" -> <<"/">>
      [] a.tag = "Multiply" -> <<"*">>
      [] a.tag = "Number" -> DecimalText(a.number)

(***************************************************************************)
(* Parser: the nom combinators, each from an input to an IResult           *)
(***************************************************************************)
IOk(rest, value) == [kind |-> "Ok", rest |-> rest, value |-> value]

\* Err(nom::Err::Error(..)): the recoverable failure, at the input it met
IError(at) == [kind |-> "Error", rest |-> at, value |-> <<>>]

\* a panic raised inside a parser (the unwrap of number)
IPanic(at) == [kind |-> "Panic", rest |-> at, value |-> <<>>]

NoParse == [kind |-> "None", rest |-> <<>>, value |-> <<>>]

tag(t, in) ==
    IF in # <<>> /\ Head(in) = t THEN IOk(Tail(in), t) ELSE IError(in)

Whitespace == {" ", "\t", "\r", "\n"}

\* a variant that takes at most one whitespace character
multispace0_one(in) ==
    IF in # <<>> /\ Head(in) \in Whitespace
    THEN IOk(Tail(in), <<>>)
    ELSE IOk(in, <<>>)

RECURSIVE multispace0(_)
multispace0(in) ==
    IF in # <<>> /\ Head(in) \in Whitespace
    THEN multispace0(Tail(in))
    ELSE IOk(in, <<>>)

IsDigit(c) == \E d \in DOMAIN Digits : Digits[d] = c

DigitValue(c) == (CHOOSE d \in DOMAIN Digits : Digits[d] = c) - 1

\* the length of the longest prefix of digits
RECURSIVE DigitRun(_)
DigitRun(in) ==
    IF in # <<>> /\ IsDigit(Head(in)) THEN 1 + DigitRun(Tail(in)) ELSE 0

digit1(in) ==
    IF DigitRun(in) = 0 THEN IError(in)
    ELSE IOk(SubSeq(in, DigitRun(in) + 1, Len(in)),
             SubSeq(in, 1, DigitRun(in)))

\* str::parse::<isize> on a run of digits: checked multiply-and-add, failing
\* with PosOverflow as soon as the value leaves the isize range
RECURSIVE parse_isize(_, _, _)
parse_isize(digits, i, acc) ==
    IF i > Len(digits) THEN [kind |-> "Ok", value |-> acc]
    ELSE IF acc * 10 + DigitValue(digits[i]) > IsizeMax
         THEN [kind |-> "Err", value |-> 0]
         ELSE parse_isize(digits, i + 1, acc * 10 + DigitValue(digits[i]))

builtin(in) ==
    CASE tag("+", in).kind = "Ok" -> IOk(Tail(in), Plus)
      [] tag("-", in).kind = "Ok" -> IOk(Tail(in), Minus)
      [] tag("/", in).kind = "Ok" -> IOk(Tail(in), Divide)
      [] tag("*", in).kind = "Ok" -> IOk(Tail(in), Multiply)
      [] OTHER -> IError(in)

number(in) ==
    LET digits == digit1(in)
    IN  IF digits.kind # "Ok" THEN IError(in)
        ELSE LET n == parse_isize(digits.value, 1, 0)
             IN  IF n.kind = "Ok" THEN IOk(digits.rest, Number(n.value))
                 ELSE IPanic(in)

\* alt((builtin, number)) between two multispace0
atom(in) ==
    LET start == multispace0(in).rest
        first == builtin(start)
        options == IF first.kind = "Error" THEN number(start) ELSE first
    IN  IF options.kind = "Ok"
        THEN IOk(multispace0(options.rest).rest, options.value)
        ELSE options

\* many1(atom) after its first success: collect until atom fails
RECURSIVE many1_more(_, _)
many1_more(in, acc) ==
    LET next == atom(in)
    IN  CASE next.kind = "Ok" -> many1_more(next.rest, Append(acc, next.value))
          [] next.kind = "Error" -> IOk(in, acc)
          [] OTHER -> next

many1_atom(in) ==
    LET first == atom(in)
    IN  IF first.kind = "Ok" THEN many1_more(first.rest, <<first.value>>)
        ELSE first

\* a variant that does not require the closing parenthesis
parse_unclosed(in) ==
    LET open == tag("(", in)
    IN  IF open.kind # "Ok" THEN IError(in)
        ELSE LET body == many1_atom(multispace0(open.rest).rest)
             IN  IF body.kind # "Ok" THEN body
                 ELSE IF tag(")", body.rest).kind = "Ok"
                      THEN IOk(Tail(body.rest), body.value)
                      ELSE IOk(body.rest, body.value)

\* a variant that fails unless the whole input is consumed
parse_all_consuming(in) ==
    LET open == tag("(", in)
    IN  IF open.kind # "Ok" THEN IError(in)
        ELSE LET body == many1_atom(multispace0(open.rest).rest)
             IN  IF body.kind # "Ok" THEN body
                 ELSE IF body.rest = <<")">>
                      THEN IOk(<<>>, body.value)
                      ELSE IError(body.rest)

parse(in) ==
    LET open == tag("(", in)
    IN  IF open.kind # "Ok" THEN IError(in)
        ELSE LET body == many1_atom(multispace0(open.rest).rest)
             IN  IF body.kind # "Ok" THEN body
                 ELSE IF tag(")", body.rest).kind = "Ok"
                      THEN IOk(Tail(body.rest), body.value)
                      ELSE IError(body.rest)

(***************************************************************************)
(* Lines of text.  A line is typed as an optional "(", atoms separated by  *)
(* runs of spaces, an optional ")" and whatever follows it.                *)
(***************************************************************************)
Op(a) == [tag |-> a.tag, number |-> 0, zeros |-> 0]

\* the literal of n written with `zeros` leading zeros
Lit(n, zeros) == [tag |-> "Number", number |-> n, zeros |-> zeros]

Symbol(t) ==
    CASE t = "Plus" -> "+" [] t = "Minus" -> "-"
      [] t = "Divide" -> "/" [] t = "Multiply" -> "*"

Spaces(n) == [i \in 1..n |-> " "]

ItemText(item) ==
    IF item.tag = "Number"
    THEN [i \in 1..item.zeros |-> "0"] \o DecimalDigits(item.number)
    ELSE <<Symbol(item.tag)>>

\* items[i..] with gaps[i] spaces before items[i]; gaps has one more entry
\* than items, the spaces before the closing parenthesis
RECURSIVE ItemsText(_, _, _)
ItemsText(items, gaps, i) ==
    IF i > Len(items) THEN Spaces(gaps[i])
    ELSE Spaces(gaps[i]) \o ItemText(items[i]) \o ItemsText(items, gaps, i + 1)

Text(f) ==
    (IF f.open THEN <<"(">> ELSE <<>>) \o ItemsText(f.items, f.gaps, 1)
        \o (IF f.close THEN <<")">> ELSE <<>>) \o f.suffix

Form(open, items, gaps, close, suffix) ==
    [open |-> open, items |-> items, gaps |-> gaps, close |-> close,
     suffix |-> suffix]

NoForm == Form(FALSE, <<>>, <<0>>, FALSE, <<>>)

\* the Atom an item denotes
ItemAtom(item) == [tag |-> item.tag, number |-> item.number]

ItemAtoms(items) == [i \in DOMAIN items |-> ItemAtom(items[i])]

(***************************************************************************)
(* The lines the model types.                                              *)
(***************************************************************************)
\* a line given character by character
Raw(text) == Form(FALSE, <<>>, <<0>>, FALSE, text)

\* items separated by single spaces, nothing after "(" or before ")"
SingleGaps(n) == [i \in 1..(n + 1) |-> IF i = 1 \/ i = n + 1 THEN 0 ELSE 1]

LiteralNumbers == (0..MaxLit) \cup {IsizeMax, IsizeMax + 1}

TokenItems == {Op(o) : o \in Operators} \cup {Lit(n, 0) : n \in LiteralNumbers}

ItemSeqs(S) == UNION {[1..k -> S] : k \in 1..MaxItems}

\* every sequence of atoms, single-spaced, with or without each parenthesis
TokenForm(f) ==
    \E o \in BOOLEAN, c \in BOOLEAN, items \in ItemSeqs(TokenItems) :
        f = Form(o, items, SingleGaps(Len(items)), c, <<>>)

SpacedItems == {Op(o) : o \in Operators} \cup {Lit(20, 1)}

Gaps(n) ==
    {g \in [1..(n + 1) -> 0..MaxGap] : g[1] <= 1 /\ g[n + 1] <= 1}

SuffixChars == {"(", ")", " ", "+", "1"}

Suffixes == UNION {[1..k -> SuffixChars] : k \in 0..MaxSuffix}

\* parenthesised atoms with every spacing (none included)
SpacedForm(f) ==
    \E items \in ItemSeqs(SpacedItems) :
        \E g \in Gaps(Len(items)) :
            f = Form(TRUE, items, g, TRUE, <<>>)

MissingClose == <<"(", "+", " ", "1">>

EmptyTail == <<"(", "+", ")">>

LeadingNumber == <<"(", "1", " ", "+", " ", "2", ")">>

MissingParens == <<"+", " ", "1", " ", "2">>

WideSpaced == Form(TRUE, <<Op(Plus), Lit(1, 0), Lit(2, 0)>>, <<0, 2, 3, 0>>,
                   TRUE, <<>>)

ExampleForms ==
    {Raw(MissingClose), Raw(EmptyTail), Raw(LeadingNumber),
     Raw(MissingParens), WideSpaced,
     Raw(<<"(", "+", "1", " ", "2", ")">>),
     Raw(<<"(", "1", "+", "2", ")">>),
     Raw(<<"(", "+", "\t", "1", ")">>)}

ParseForm(f) == TokenForm(f) \/ SpacedForm(f) \/ f \in ExampleForms

(***************************************************************************)
(* Direct calls of parse, and of parse on the re-rendering of its result.  *)
(***************************************************************************)
\* the tokens of an expression, each rendered by Display, joined by single
\* spaces inside parentheses
RECURSIVE Joined(_, _)
Joined(as, i) ==
    IF i > Len(as) THEN <<>>
    ELSE (IF i = 1 THEN <<>> ELSE <<" ">>) \o fmt(as[i]) \o Joined(as, i + 1)

Rendering(as) == <<"(">> \o Joined(as, 1) \o <<")">>

InitParse ==
    /\ ParseForm(form)
    /\ input = Text(form)
    /\ overflow_checks = TRUE
    /\ parsed = NoParse
    /\ atoms = <<>>
    /\ output = NoOutput
    /\ pc = "parse"
    /\ status = "running"
    /\ stdout = <<>>
    /\ written = 0
    /\ reads = 0
    /\ evals = 0

ParseCall ==
    /\ pc = "parse"
    /\ UNCHANGED written
    /\ parsed' = parse(input)
    /\ pc' = "parsed"
    /\ UNCHANGED <<input, atoms, output, overflow_checks, status, stdout,
                   reads, evals, form>>

\* an Operator followed by Numbers
IsApplication(as) ==
    /\ Len(as) >= 2
    /\ as[1] \in Operators
    /\ \A i \in 2..Len(as) : as[i].tag = "Number"

RenderCall ==
    /\ pc = "parsed"
    /\ UNCHANGED written
    /\ parsed.kind = "Ok"
    /\ IsApplication(parsed.value)
    /\ atoms' = parsed.value
    /\ input' = Rendering(parsed.value)
    /\ pc' = "rendered"
    /\ UNCHANGED <<parsed, output, overflow_checks, status, stdout, reads,
                   evals, form>>

ReparseCall ==
    /\ pc = "rendered"
    /\ UNCHANGED written
    /\ parsed' = parse(input)
    /\ pc' = "reparsed"
    /\ UNCHANGED <<input, atoms, output, overflow_checks, status, stdout,
                   reads, evals, form>>

NextParse == ParseCall \/ RenderCall \/ ReparseCall

ParseSpec == InitParse /\ [][NextParse]_vars

(***************************************************************************)
(* Properties of parse                                                     *)
(***************************************************************************)
\* (OP n0 .. nk): an operator, then k + 1 >= 1 literals within the isize
\* range, at least one space between atoms, nothing after the ")"
ValidForm(f) ==
    /\ f.open /\ f.close /\ f.suffix = <<>>
    /\ Len(f.items) >= 2
    /\ f.items[1].tag # "Number"
    /\ \A i \in 2..Len(f.items) :
          /\ f.items[i].tag = "Number"
          /\ f.items[i].number <= IsizeMax
          /\ f.gaps[i] >= 1

SingleSpaced(f) ==
    Form(f.open, f.items, SingleGaps(Len(f.items)), f.close, f.suffix)

\* C3: every input (OP n0 .. nk) with in-range literals and one or more
\* spaces between atoms parses to the k + 2 tokens OP, n0, .., nk in order,
\* the same tokens as the single-spaced text of the same atoms.
C3_ParsesValidForms ==
    (pc = "parsed" /\ ValidForm(form))
    => /\ parsed.kind = "Ok"
       /\ parsed.rest = <<>>
       /\ Len(parsed.value) = Len(form.items)
       /\ parsed.value = ItemAtoms(form.items)
       /\ parsed.value = parse(Text(SingleSpaced(form))).value

C3_Witness ==
    /\ pc = "parsed"
    /\ form = WideSpaced
    /\ input = <<"(", "+", " ", " ", "1", " ", " ", " ", "2", ")">>
    /\ parsed = IOk(<<>>, <<Plus, Number(1), Number(2)>>)

\* C4 as stated: each of "(+ 1", "(+)", "(1 + 2)" and "+ 1 2" makes parse
\* return a failure.
C4_AsStated ==
    (pc = "parsed"
        /\ input \in {MissingClose, EmptyTail, LeadingNumber, MissingParens})
    => parsed.kind = "Error"

\* C4 (amended): parse panics on none of "(+ 1", "(+)", "(1 + 2)", "+ 1 2";
\* it returns a failure on "(+ 1" and "+ 1 2", and it succeeds on "(+)" and
\* "(1 + 2)", whose tokens [Plus] and [1, Plus, 2] eval then rejects.
C4_MalformedInputs ==
    /\ (pc = "parsed" /\ input \in {MissingClose, MissingParens})
        => parsed.kind = "Error"
    /\ (pc = "parsed" /\ input = EmptyTail)
        => /\ parsed = IOk(<<>>, <<Plus>>)
           /\ eval(parsed.value) = EvalErr("Tail is empty")
    /\ (pc = "parsed" /\ input = LeadingNumber)
        => /\ parsed = IOk(<<>>, <<Number(1), Plus, Number(2)>>)
           /\ eval(parsed.value) = EvalErr("Invalid input")

C4_Witness ==
    /\ pc = "parsed"
    /\ input = MissingClose
    /\ parsed.kind = "Error"

\* an operator directly followed by a digit or an operator, or a number
\* directly followed by an operator, inside the parentheses
Unseparated(f) ==
    /\ f.open
    /\ \E i \in 2..Len(f.items) :
          /\ f.gaps[i] = 0
          /\ (f.items[i - 1].tag # "Number" \/ f.items[i].tag # "Number")

\* C8: an input in which two atoms stand side by side with no whitespace
\* between them, such as (+1 2), (+-) or (1+2), is a parse failure.
C8_SeparatorRequired ==
    (pc = "parsed" /\ Unseparated(form)) => parsed.kind = "Error"

\* C9: parsing the re-rendering of an expression (each token by Display,
\* single spaces, parentheses) yields the expression again.
C9_RenderParse ==
    pc = "reparsed" => (parsed.kind = "Ok" /\ parsed.value = atoms)

(***************************************************************************)
(* main: the read-eval-print loop                                          *)
(***************************************************************************)
\* println!("{error}") of a nom error
ParseErrorLine == <<"Parsing Error">>

\* println!("Error: {error}") of a ReadlineError
ReadlineErrorLine == <<"Error: ">>

ReplItems ==
    {Op(o) : o \in Operators} \cup {Lit(0, 0), Lit(1, 0), Lit(IsizeMax + 1, 0)}

\* a parenthesised, single-spaced sequence of atoms
PlainForm(f) ==
    \E items \in ItemSeqs(ReplItems) :
        f = Form(TRUE, items, SingleGaps(Len(items)), TRUE, <<>>)

SuffixedItems == {Op(Divide), Lit(0, 0), Lit(1, 0)}

\* a parenthesised, single-spaced sequence of atoms followed by any suffix
SuffixedForm(f) ==
    \E items \in ItemSeqs(SuffixedItems), s \in Suffixes :
        f = Form(TRUE, items, SingleGaps(Len(items)), TRUE, s)

\* a sum that leaves the isize range
Overflowing == Form(TRUE, <<Op(Plus), Lit(IsizeMax, 0), Lit(1, 0)>>,
                    SingleGaps(3), TRUE, <<>>)

ReplForm(f) ==
    PlainForm(f) \/ SuffixedForm(f) \/ f \in ExampleForms \cup {Overflowing}

Init ==
    /\ overflow_checks \in BOOLEAN
    /\ pc = "readline"
    /\ status = "running"
    /\ stdout = <<>>
    /\ written = 0
    /\ reads = 0
    /\ evals = 0
    /\ input = <<>>
    /\ form = NoForm
    /\ parsed = NoParse
    /\ atoms = <<>>
    /\ output = NoOutput

\* editor.readline(">> ") returns Ok(input)
Readline ==
    /\ pc = "readline"
    /\ UNCHANGED written
    /\ reads < MaxLines
    /\ ReplForm(form')
    /\ input' = Text(form')
    /\ reads' = reads + 1
    /\ pc' = "parse"
    /\ UNCHANGED <<parsed, atoms, output, overflow_checks, status, stdout,
                   evals>>

\* editor.readline returns Err(Interrupted | Eof): break, then Ok(())
ReadlineEnd ==
    /\ pc = "readline"
    /\ UNCHANGED written
    /\ pc' = "exit"
    /\ status' = "returned_ok"
    /\ UNCHANGED <<input, parsed, atoms, output, overflow_checks, stdout,
                   reads, evals, form>>

\* editor.readline returns any other Err: print it, break, then Ok(())
ReadlineFailure ==
    /\ pc = "readline"
    /\ UNCHANGED written
    /\ stdout' = Append(stdout, ReadlineErrorLine)
    /\ pc' = "exit"
    /\ status' = "returned_ok"
    /\ UNCHANGED <<input, parsed, atoms, output, overflow_checks, reads,
                   evals, form>>

\* a variant that ends the session on a parse failure
MainParse_fatal ==
    /\ pc = "parse"
    /\ UNCHANGED written
    /\ parsed' = parse(input)
    /\ CASE parsed'.kind = "Ok" ->
                /\ atoms' = parsed'.value
                /\ pc' = "eval"
                /\ UNCHANGED <<status, stdout>>
         [] parsed'.kind = "Error" ->
                /\ status' = "returned_err"
                /\ pc' = "exit"
                /\ UNCHANGED <<atoms, stdout>>
         [] OTHER ->
                /\ status' = "panicked"
                /\ pc' = "exit"
                /\ UNCHANGED <<atoms, stdout>>
    /\ UNCHANGED <<input, output, overflow_checks, reads, evals, form>>

\* match parse(&input)
MainParse ==
    /\ pc = "parse"
    /\ UNCHANGED written
    /\ parsed' = parse(input)
    /\ CASE parsed'.kind = "Ok" ->
                /\ atoms' = parsed'.value
                /\ pc' = "eval"
                /\ UNCHANGED <<status, stdout>>
         [] parsed'.kind = "Error" ->
                /\ stdout' = Append(stdout, ParseErrorLine)
                /\ pc' = "end_body"
                /\ UNCHANGED <<atoms, status>>
         [] OTHER ->
                /\ status' = "panicked"
                /\ pc' = "exit"
                /\ UNCHANGED <<atoms, stdout>>
    /\ UNCHANGED <<input, output, overflow_checks, reads, evals, form>>

\* a variant that prints an evaluation error and goes on
MainEval_recovering ==
    /\ pc = "eval"
    /\ UNCHANGED written
    /\ output' = eval(atoms)
    /\ evals' = evals + 1
    /\ CASE output'.kind = "Ok" ->
                /\ stdout' = Append(stdout, fmt(output'.value))
                /\ pc' = "end_body"
                /\ UNCHANGED status
         [] output'.kind = "Err" ->
                /\ stdout' = Append(stdout, <<output'.msg>>)
                /\ pc' = "end_body"
                /\ UNCHANGED status
         [] OTHER ->
                /\ status' = "panicked"
                /\ pc' = "exit"
                /\ UNCHANGED stdout
    /\ UNCHANGED <<input, parsed, atoms, overflow_checks, reads, form>>

\* let output = eval(&atoms)?; println!("{output}");
MainEval ==
    /\ pc = "eval"
    /\ UNCHANGED written
    /\ output' = eval(atoms)
    /\ evals' = evals + 1
    /\ CASE output'.kind = "Ok" ->
                /\ stdout' = Append(stdout, fmt(output'.value))
                /\ pc' = "end_body"
                /\ UNCHANGED status
         [] output'.kind = "Err" ->
                /\ status' = "returned_err"
                /\ pc' = "exit"
                /\ UNCHANGED stdout
         [] OTHER ->
                /\ status' = "panicked"
                /\ pc' = "exit"
                /\ UNCHANGED stdout
    /\ UNCHANGED <<input, parsed, atoms, overflow_checks, reads, form>>

\* the end of the loop body: input, atoms and output are dropped
MainLoop ==
    /\ pc = "end_body"
    /\ pc' = "readline"
    /\ written' = written + Len(stdout)
    /\ stdout' = <<>>
    /\ input' = <<>>
    /\ form' = NoForm
    /\ parsed' = NoParse
    /\ atoms' = <<>>
    /\ output' = NoOutput
    /\ UNCHANGED <<overflow_checks, status, reads, evals>>

Next ==
    \/ Readline
    \/ ReadlineEnd
    \/ ReadlineFailure
    \/ MainParse
    \/ MainEval
    \/ MainLoop

Spec == Init /\ [][Next]_vars

(***************************************************************************)
(* Properties of the loop                                                  *)
(***************************************************************************)
Last(seq) == seq[Len(seq)]

\* C5: when parse fails on a line, main prints the error as one message,
\* does not call eval, and reaches the end of the loop body still running,
\* from where it goes back to readline.
C5_ParseFailureContinues ==
    [][/\ (pc = "parse" /\ parse(input).kind = "Error")
          => /\ stdout' = Append(stdout, ParseErrorLine)
             /\ evals' = evals
             /\ output' = NoOutput
             /\ status' = "running"
             /\ pc' = "end_body"
       /\ pc = "end_body"
          => /\ pc' = "readline"
             /\ status' = "running"
             /\ written' = written + Len(stdout)]_vars

\* a failing line, then a valid line that is evaluated and printed
C5_Witness ==
    /\ pc = "end_body"
    /\ status = "running"
    /\ reads = 2
    /\ evals = 1
    /\ input = <<"(", "+", " ", "1", " ", "1", ")">>
    /\ written = 1
    /\ stdout = <<<<"2">>>>

\* C6: when a line parses but starts with a Number or has an Operator in its
\* tail, the session is not terminated.
C6_WrongKindContinues ==
    (output.kind = "Err" /\ output.msg \in {"Invalid input", "Expected number"})
    => status = "running"

\* C7: a division by zero in the fold, a literal that overflows isize, or an
\* operator without operands ends the session at once: nothing is printed
\* for the line, and after the end nothing changes any more.
C7_FatalEndsSession ==
    [][/\ (pc = "eval" /\ eval(atoms).msg \in {"divide by zero", "Tail is empty"})
          => /\ status' # "running"
             /\ pc' = "exit"
             /\ stdout' = <<>> /\ written' = written
       /\ (pc = "parse" /\ parse(input).kind = "Panic")
          => (status' = "panicked" /\ pc' = "exit"
              /\ stdout' = <<>> /\ written' = written
              /\ evals' = evals)
       /\ pc = "exit" => UNCHANGED vars]_vars

C7_Witness ==
    /\ pc = "exit"
    /\ status = "panicked"
    /\ output.msg = "divide by zero"
    /\ reads < MaxLines
    /\ stdout = <<>>

\* the line without what follows its closing parenthesis
Base(f) == Form(f.open, f.items, f.gaps, f.close, <<>>)

\* C10: a line made of a valid expression text e and a suffix has the
\* outcome of e alone: the same atoms reach eval, and the same result is
\* printed or the same failure ends the session.
C10_SuffixIgnored ==
    (/\ reads > 0 /\ pc # "parse"
     /\ form.open /\ form.close
     /\ parse(Text(Base(form))).kind = "Ok")
    => /\ parsed.kind = "Ok"
       /\ parsed.rest = form.suffix
       /\ parsed.value = parse(Text(Base(form))).value
       /\ pc # "eval" => output = eval(parse(Text(Base(form))).value)
       /\ pc = "end_body"
            => Last(stdout) = fmt(eval(parse(Text(Base(form))).value).value)

C10_Witness ==
    /\ pc = "end_body"
    /\ reads = 1
    /\ input = <<"(", "/", " ", "1", " ", "1", ")", "(">>
    /\ stdout = <<<<"1">>>>

(***************************************************************************)
(* Direct calls of eval: every token sequence up to MaxAtoms atoms whose   *)
(* numbers are literals the parser can produce.                            *)
(***************************************************************************)
BoundedSeq(S, n) == UNION {[1..k -> S] : k \in 0..n}

EvalNumbers == (0..MaxNum) \cup {10, 20, IsizeMax}

EvalAtoms == Operators \cup {Number(n) : n \in EvalNumbers}

InitEval ==
    /\ atoms \in BoundedSeq(EvalAtoms, MaxAtoms)
    /\ overflow_checks \in BOOLEAN
    /\ input = <<>>
    /\ parsed = NoParse
    /\ output = NoOutput
    /\ pc = "eval"
    /\ status = "running"
    /\ stdout = <<>>
    /\ written = 0
    /\ reads = 0
    /\ evals = 0
    /\ form = NoForm

EvalCall ==
    /\ pc = "eval"
    /\ UNCHANGED written
    /\ output' = eval(atoms)
    /\ pc' = "done"
    /\ UNCHANGED <<input, parsed, atoms, overflow_checks, status, stdout,
                   reads, evals, form>>

NextEval == EvalCall

EvalSpec == InitEval /\ [][NextEval]_vars

(***************************************************************************)
(* Properties of eval                                                      *)
(***************************************************************************)
Operands(as) == [i \in 1..(Len(as) - 1) |-> as[i + 1].number]

\* the left fold over the mathematical integers, seeded by the first operand
RECURSIVE LeftFold(_, _, _)
LeftFold(op, ns, k) ==
    IF k = 1 THEN ns[1]
    ELSE LET acc == LeftFold(op, ns, k - 1)
         IN  CASE op = "Plus" -> acc + ns[k]
               [] op = "Minus" -> acc - ns[k]
               [] op = "Multiply" -> acc * ns[k]
               [] op = "Divide" -> Quot(acc, ns[k])

NoZeroDivisor(op, ns) ==
    op = "Divide" => \A i \in 2..Len(ns) : ns[i] # 0

FoldInRange(op, ns) == \A k \in 1..Len(ns) : InIsize(LeftFold(op, ns, k))

Nums(seq) == [i \in DOMAIN seq |-> Number(seq[i])]

\* C1 as stated: for every Operator followed by Numbers (no zero divisor for
\* Divide) eval returns the Number that is the left fold over the integers.
C1_AsStated ==
    (pc = "done" /\ IsApplication(atoms)
        /\ NoZeroDivisor(atoms[1].tag, Operands(atoms)))
    => /\ output.kind = "Ok"
       /\ output.value =
            Number(LeftFold(atoms[1].tag, Operands(atoms), Len(atoms) - 1))

\* C1 (amended): for every Operator followed by Numbers, with no zero divisor
\* for Divide and every partial fold within the isize range, eval returns the
\* Number that is the left fold seeded by the first operand (a single operand
\* is returned unchanged); (+ 1 2 3) = 6, (- 10 3 2) = 5, (* 2 3 4) = 24 and
\* (/ 20 2 5) = 2.
C1_LeftFold ==
    /\ (pc = "done" /\ IsApplication(atoms)
            /\ NoZeroDivisor(atoms[1].tag, Operands(atoms))
            /\ FoldInRange(atoms[1].tag, Operands(atoms)))
        => /\ output.kind = "Ok"
           /\ output.value =
                Number(LeftFold(atoms[1].tag, Operands(atoms), Len(atoms) - 1))
           /\ (Len(atoms) = 2 => output.value = atoms[2])
    /\ (pc = "done" /\ atoms = <<Plus>> \o Nums(<<1, 2, 3>>))
        => output.value = Number(6)
    /\ (pc = "done" /\ atoms = <<Minus>> \o Nums(<<10, 3, 2>>))
        => output.value = Number(5)
    /\ (pc = "done" /\ atoms = <<Multiply>> \o Nums(<<2, 3, 4>>))
        => output.value = Number(24)
    /\ (pc = "done" /\ atoms = <<Divide>> \o Nums(<<20, 2, 5>>))
        => output.value = Number(2)

C1_Witness ==
    /\ pc = "done"
    /\ atoms = <<Minus>> \o Nums(<<10, 3, 2>>)
    /\ output = EvalOk(Number(5), 2)

\* C2: eval returns an error, with no arithmetic performed and no panic, for
\* every token sequence that is not an Operator followed by a non-empty tail
\* of Numbers: "Invalid input" when the sequence is empty or starts with a
\* Number, "Expected number" when an Operator is followed by a tail holding an
\* Operator, "Tail is empty" when an Operator stands alone.
C2_ErrorClasses ==
    (pc = "done" /\ ~IsApplication(atoms))
    => /\ output.kind = "Err"
       /\ output.ops = 0
       /\ (atoms = <<>> \/ Head(atoms).tag = "Number")
            => output.msg = "Invalid input"
       /\ (atoms # <<>> /\ Head(atoms) \in Operators
              /\ \E i \in 2..Len(atoms) : atoms[i] \in Operators)
            => output.msg = "Expected number"
       /\ (Len(atoms) = 1 /\ Head(atoms) \in Operators)
            => output.msg = "Tail is empty"

C2_Witness ==
    /\ pc = "done"
    /\ atoms = <<Divide, Number(5), Number(0), Plus>>
    /\ output = EvalErr("Expected number")

====
